---- MODULE Spec2Model ----
(***************************************************************************)
(* Model of the MicroDrop plugin manager (mpm).                            *)
(*                                                                         *)
(*  - mpm/api.py      : activation (enable_plugin, disable_plugin,         *)
(*                      _remove_broken_links) and the Conda based          *)
(*                      lifecycle (install, rollback, _save_action).       *)
(*  - mpm/commands.py : archive based install, uninstall, freeze.          *)
(*  - mpm/ui/gtk      : update_plugin_dialog.                              *)
(*                                                                         *)
(* The specifications share the variables:                                 *)
(*    SpecAct  activation manager over the enabled/available roots         *)
(*    SpecCmd  archive based install/uninstall/freeze                      *)
(*    SpecRev  Conda install / action records / rollback                   *)
(*    SpecLst  installed_plugins / enabled_plugins / update                *)
(*    SpecDir  get_plugins_directory / validate_args                       *)
(*    SpecSel  rollback over the files of the actions directory            *)
(*    SpecDlg  the threads of ui.gtk.update_plugin_dialog                  *)
(***************************************************************************)
EXTENDS Integers, Sequences, FiniteSets, TLC

VARIABLES
    platform,      \* platform.system(): "Windows" or "Linux"
    prefixKind,    \* type of the path objects returned by ch.conda_prefix()
    available,     \* [root -> [name -> entry]]: the two "available" roots
    enabled_dir,   \* TRUE iff <etc>/plugins/enabled exists
    enabled,       \* [name -> entry]: entries under the enabled root
    plugins,       \* [name -> plugin directory]: commands.py plugins_directory
    scratch,       \* number of mpm- scratch directories left in the temp dir
    revisions,     \* `conda list --revisions`: sequence of revision records
    actions,       \* set of action files under MICRODROP_CONDA_ACTIONS
    packages,      \* names of the Conda packages installed in the environment
    dialog,        \* update_plugin_dialog: its threads, event and context
    last,          \* the last call: arguments, outcome, state before it
    prev           \* summary of the call before the last one

vars == <<platform, prefixKind, available, enabled_dir, enabled,
          plugins, scratch, revisions, actions, packages, dialog, last, prev>>

actVars == <<platform, prefixKind, available, enabled_dir, enabled>>
cmdVars == <<plugins, scratch>>
revVars == <<revisions, actions, packages>>

(***************************************************************************)
(* Bounds                                                                  *)
(***************************************************************************)
MaxNames == 2      \* longest list of plugin names passed to one call
MaxVersion == 2    \* versions are 1..MaxVersion
MaxRev == 3        \* the environment's revision counter stops here

Names == {"p", "q"}
Versions == 1..MaxVersion
NameLists == UNION {[1..k -> Names] : k \in 1..MaxNames}

(***************************************************************************)
(* Filesystem entries                                                      *)
(***************************************************************************)
NoEntry == [kind |-> "none"]
DirEntry(n, v) == [kind |-> "dir", package_name |-> n, version |-> v]
AvailLoc(r, n) == [area |-> "available", root |-> r, name |-> n]
EnabledLoc(n) == [area |-> "enabled", root |-> "etc", name |-> n]
LinkEntry(to) == [kind |-> "link", to |-> to]

FS == [available |-> available, enabled_dir |-> enabled_dir, enabled |-> enabled]

entry_at(fs, loc) ==
    IF loc.area = "available" THEN fs.available[loc.root][loc.name]
    ELSE IF fs.enabled_dir THEN fs.enabled[loc.name] ELSE NoEntry

\* Path.is_symlink(): lstat, does not follow the link
is_symlink(fs, loc) == entry_at(fs, loc).kind = "link"

\* Path.exists(): stat, follows links; a link whose target is gone does not exist
path_exists(fs, loc) ==
    LET e == entry_at(fs, loc)
    IN  \/ e.kind = "dir"
        \/ /\ e.kind = "link"
           /\ entry_at(fs, e.to).kind = "dir"

put_entry(fs, loc, e) ==
    IF loc.area = "available"
    THEN [fs EXCEPT !.available[loc.root][loc.name] = e]
    ELSE [fs EXCEPT !.enabled[loc.name] = e]

\* Path.symlink_to(target): os.symlink(target, self), creates the link AT self
symlink_to(fs, self, target) ==
    IF entry_at(fs, self).kind # "none"
    THEN [fs |-> fs, err |-> "FileExistsError"]
    ELSE IF self.area = "enabled" /\ ~fs.enabled_dir
    THEN [fs |-> fs, err |-> "FileNotFoundError"]
    ELSE [fs |-> put_entry(fs, self, LinkEntry(target)), err |-> "none"]

\* (mutant) removal that follows the link and deletes the target tree as well
unlink_rmtree(fs, loc) ==
    LET e == entry_at(fs, loc)
    IN  IF e.kind = "none" THEN [fs |-> fs, err |-> "FileNotFoundError"]
        ELSE IF e.kind = "dir" THEN [fs |-> fs, err |-> "PermissionError"]
        ELSE [fs |-> put_entry(put_entry(fs, e.to, NoEntry), loc, NoEntry),
              err |-> "none"]

\* Path.unlink(): removes the entry itself, never what a link points to
unlink(fs, loc) ==
    LET e == entry_at(fs, loc)
    IN  IF e.kind = "none" THEN [fs |-> fs, err |-> "FileNotFoundError"]
        ELSE IF e.kind = "dir" THEN [fs |-> fs, err |-> "PermissionError"]
        ELSE [fs |-> put_entry(fs, loc, NoEntry), err |-> "none"]

\* enabled_path.makedirs_p(): a path_helpers method; pathlib.Path has none
makedirs_p(fs) ==
    IF prefixKind = "pathlib"
    THEN [fs |-> fs, err |-> "AttributeError"]
    ELSE [fs |-> [fs EXCEPT !.enabled_dir = TRUE], err |-> "none"]

EmptyMap == [n \in {} |-> TRUE]
MapPut(m, n, b) == [x \in DOMAIN m \cup {n} |-> IF x = n THEN b ELSE m[x]]

(***************************************************************************)
(* api.enable_plugin                                                       *)
(***************************************************************************)
\* for available_path in (etc_available_path, shared_available_path)
find_available(fs, name) ==
    IF path_exists(fs, AvailLoc("etc", name)) THEN "etc"
    ELSE IF path_exists(fs, AvailLoc("share", name)) THEN "share"
    ELSE "none"

RECURSIVE enable_loop(_, _, _, _)
enable_loop(fs, plugin_names, i, enabled_now) ==
    IF i > Len(plugin_names)
    THEN [fs |-> fs, returned |-> TRUE, ret |-> enabled_now, err |-> "none"]
    ELSE
      LET name == plugin_names[i]
          found == find_available(fs, name)
          plugin_path == AvailLoc(found, name)
          link_path == EnabledLoc(name)
          fail(e) == [fs |-> fs, returned |-> FALSE, ret |-> EmptyMap, err |-> e]
      IN  IF found = "none" THEN fail("IOError")
          ELSE IF ~path_exists(fs, link_path)
          THEN IF platform = "Windows" THEN fail("NotImplementedError")
               ELSE LET r == symlink_to(fs, plugin_path, link_path)
                    IN  IF r.err # "none" THEN fail(r.err)
                        ELSE enable_loop(r.fs, plugin_names, i + 1,
                                         MapPut(enabled_now, name, TRUE))
          ELSE enable_loop(fs, plugin_names, i + 1,
                           MapPut(enabled_now, name, FALSE))

enable_plugin(fs, plugin_names) ==
    LET m == makedirs_p(fs)
    IN  IF m.err # "none"
        THEN [fs |-> fs, returned |-> FALSE, ret |-> EmptyMap, err |-> m.err]
        ELSE enable_loop(m.fs, plugin_names, 1, EmptyMap)

(***************************************************************************)
(* api.disable_plugin                                                      *)
(***************************************************************************)
RECURSIVE disable_loop(_, _, _)
disable_loop(fs, plugin_names, i) ==
    IF i > Len(plugin_names)
    THEN [fs |-> fs, returned |-> TRUE, err |-> "none"]
    ELSE
      LET plugin_link_path == EnabledLoc(plugin_names[i])
      IN  IF ~path_exists(fs, plugin_link_path)
          THEN [fs |-> fs, returned |-> FALSE, err |-> "IOError"]
          ELSE LET r == unlink(fs, plugin_link_path)
               IN  IF r.err # "none"
                   THEN [fs |-> r.fs, returned |-> FALSE, err |-> r.err]
                   ELSE disable_loop(r.fs, plugin_names, i + 1)

\* (mutant) names without an entry are skipped instead of raising
disable_plugin_missing_ok(fs, plugin_names) ==
    disable_loop(fs, SelectSeq(plugin_names,
                               LAMBDA n : path_exists(fs, EnabledLoc(n))), 1)

disable_plugin(fs, plugin_names) == disable_loop(fs, plugin_names, 1)

(***************************************************************************)
(* api._remove_broken_links                                                *)
(***************************************************************************)
\* enabled_dir.glob('**/*'): links are not descended into
glob_enabled(fs) == {n \in Names : entry_at(fs, EnabledLoc(n)).kind # "none"}

is_broken_link(fs, loc) == is_symlink(fs, loc) /\ ~path_exists(fs, loc)

\* failing: the links whose link_i.unlink() raises (access denied, entry in
\* use); lines 113-119 catch the exception and go on with the next link
remove_broken_links(fs, failing) ==
    IF ~fs.enabled_dir
    THEN [fs |-> fs, returned |-> TRUE, removed |-> {}, err |-> "none"]
    ELSE IF platform # "Windows" /\ glob_enabled(fs) # {}
    THEN [fs |-> fs, returned |-> FALSE, removed |-> {}, err |-> "NotImplementedError"]
    ELSE
      LET broken_links == {n \in glob_enabled(fs) : is_broken_link(fs, EnabledLoc(n))}
          removed_links == broken_links \ failing
      IN  [fs |-> [fs EXCEPT !.enabled =
                      [n \in Names |-> IF n \in removed_links THEN NoEntry ELSE @[n]]],
           returned |-> TRUE, removed |-> removed_links, err |-> "none"]

\* the links of the enabled root whose target is gone
BrokenLinks(fs) ==
    {n \in Names : fs.enabled_dir /\ is_symlink(fs, EnabledLoc(n))
                                  /\ ~path_exists(fs, EnabledLoc(n))}

(***************************************************************************)
(* api.uninstall                                                           *)
(***************************************************************************)
\* Conda package names handed to uninstall: a plugin's package may carry a
\* namespace prefix ("ns.q" provides the plugin directory "q")
PackageNames == Names \cup {"ns.q"}
UninstallArgs == {<<n>> : n \in PackageNames} \cup {<<"p", "q">>}

\* line 331: name_i.split('.')[-1].replace('-', '_')
plugin_module(name_i) == IF name_i = "ns.q" THEN "q" ELSE name_i

\* (mutant) only the first name is looked up before Conda is run
missing_first(fs, plugin_names) ==
    {i \in {1} : ~path_exists(fs, AvailLoc("share", plugin_module(plugin_names[i])))}

\* lines 330-336: the names whose directory is not under share/.../available
missing(fs, plugin_names) ==
    {i \in DOMAIN plugin_names :
        ~path_exists(fs, AvailLoc("share", plugin_module(plugin_names[i])))}

\* `conda uninstall --json -y <names>` executed: the packages' files, the
\* plugin directories under the share root among them, are deleted
conda_uninstall(fs, plugin_names) ==
    [fs EXCEPT !.available["share"] =
        [n \in Names |-> IF \E i \in DOMAIN plugin_names :
                                plugin_module(plugin_names[i]) = n
                         THEN NoEntry ELSE @[n]]]

\* outcome: "error" (conda_exec raises RuntimeError, nothing was removed) or
\* "done" (the transaction was executed)
api_uninstall(fs, plugin_names, outcome, failing) ==
    IF missing(fs, plugin_names) # {}
    THEN [fs |-> fs, returned |-> FALSE, removed |-> {}, err |-> "IOError"]
    ELSE IF outcome = "error"
    THEN [fs |-> fs, returned |-> FALSE, removed |-> {}, err |-> "RuntimeError"]
    ELSE remove_broken_links(conda_uninstall(fs, plugin_names), failing)

(***************************************************************************)
(* History                                                                 *)
(***************************************************************************)
NoCall == [op |-> "none"]
\* update_plugin_dialog has not been called
NoDialog ==
    [package_name |-> "none", ret |-> "unset", main |-> "idle",
     worker |-> "none", pulse |-> "none", update_complete |-> FALSE,
     thread_context |-> "unset", update_response |-> "unset", idle |-> {},
     text |-> "none", progress_bar |-> "none"]
\* prev remembers an enable call only (the one two-call claim is about enable)
Summary(l) == IF l.op = "enable" THEN l ELSE NoCall

(***************************************************************************)
(* SpecAct: the activation manager                                         *)
(***************************************************************************)
InitFiles ==
    /\ available = [r \in {"etc", "share"} |-> [n \in Names |-> NoEntry]]
    /\ enabled_dir = FALSE
    /\ enabled = [n \in Names |-> NoEntry]
    /\ plugins = [n \in Names |-> NoEntry]
    /\ scratch = 0
    /\ revisions = <<[type |-> "dict", rev |-> 0]>>
    /\ actions = {}
    /\ packages = {}
    /\ dialog = NoDialog
    /\ last = NoCall
    /\ prev = NoCall

SetFS(fs) ==
    /\ available' = fs.available
    /\ enabled_dir' = fs.enabled_dir
    /\ enabled' = fs.enabled

ActCall(op, names, r, removed, failing) ==
    /\ SetFS(r.fs)
    /\ last' = [op |-> op, names |-> names, returned |-> r.returned,
                ret |-> IF op = "enable" THEN r.ret ELSE EmptyMap,
                removed |-> removed, err |-> r.err, pre |-> FS,
                failing |-> failing]
    /\ prev' = Summary(last)
    /\ UNCHANGED <<platform, prefixKind, cmdVars, revVars, dialog>>

Enable ==
    \E plugin_names \in NameLists :
        ActCall("enable", plugin_names, enable_plugin(FS, plugin_names), {}, {})

Disable ==
    \E plugin_names \in NameLists :
        ActCall("disable", plugin_names, disable_plugin(FS, plugin_names), {}, {})

Sweep ==
    \E failing \in SUBSET BrokenLinks(FS) :
        LET r == remove_broken_links(FS, failing)
        IN  ActCall("sweep", <<>>, r, r.removed, failing)

ApiUninstall ==
    \E plugin_names \in UninstallArgs, outcome \in {"error", "done"} :
        \E failing \in SUBSET BrokenLinks(conda_uninstall(FS, plugin_names)) :
            LET r == api_uninstall(FS, plugin_names, outcome, failing)
            IN  /\ (missing(FS, plugin_names) # {} \/ outcome = "error")
                      => failing = {}
                /\ ActCall("uninstall", plugin_names, r, r.removed, failing)

\* A plugin directory appears under an available root (Conda package install,
\* or a user copying a plugin into the etc root).
EnvAddPlugin ==
    \E r \in {"etc", "share"}, n \in Names :
        /\ available[r][n].kind = "none"
        /\ available' = [available EXCEPT ![r][n] = DirEntry(n, 1)]
        /\ last' = NoCall
        /\ prev' = NoCall
        /\ UNCHANGED <<platform, prefixKind, enabled_dir, enabled, cmdVars, revVars,
                       dialog>>

\* A plugin directory is deleted directly, behind the manager's back.
EnvDeletePlugin ==
    \E r \in {"etc", "share"}, n \in Names :
        /\ available[r][n].kind = "dir"
        /\ available' = [available EXCEPT ![r][n] = NoEntry]
        /\ last' = NoCall
        /\ prev' = NoCall
        /\ UNCHANGED <<platform, prefixKind, enabled_dir, enabled, cmdVars, revVars,
                       dialog>>

\* The host application (or the user) links an available plugin directory
\* into the enabled root.
EnvCreateLink ==
    \E r \in {"etc", "share"}, n \in Names :
        /\ available[r][n].kind = "dir"
        /\ entry_at(FS, EnabledLoc(n)).kind = "none"
        /\ enabled_dir' = TRUE
        /\ enabled' = [enabled EXCEPT ![n] = LinkEntry(AvailLoc(r, n))]
        /\ last' = NoCall
        /\ prev' = NoCall
        /\ UNCHANGED <<platform, prefixKind, available, cmdVars, revVars,
                       dialog>>

NextAct ==
    \/ Enable
    \/ Disable
    \/ Sweep
    \/ ApiUninstall
    \/ EnvAddPlugin
    \/ EnvDeletePlugin
    \/ EnvCreateLink

InitAct ==
    /\ platform \in {"Windows", "Linux"}
    /\ prefixKind \in {"pathlib", "path_helpers"}
    /\ InitFiles

SpecAct == InitAct /\ [][NextAct]_vars

(***************************************************************************)
(* Activation claims (checked under SpecAct)                               *)
(***************************************************************************)
Range(f) == {f[i] : i \in DOMAIN f}
Installed(fs, n) == find_available(fs, n) # "none"
Unlinked(fs, n) == entry_at(fs, EnabledLoc(n)).kind = "none"
\* the environment in which enable_plugin gets furthest: symbolic links are
\* attempted (not Windows) and the path objects have makedirs_p
Posix == platform = "Linux" /\ prefixKind = "path_helpers"

\* C1: enable twice in a row on the same installed, not yet linked name
\* returns {name: True} and then {name: False}, and afterwards exactly one
\* link for the name exists under the enabled root (stated for the POSIX
\* environment, where link creation is defined).
C1_EnableTwice ==
    \A n \in Names :
        (/\ Posix
         /\ prev.op = "enable" /\ last.op = "enable"
         /\ prev.names = <<n>> /\ last.names = <<n>>
         /\ Installed(prev.pre, n) /\ Unlinked(prev.pre, n))
        => /\ prev.returned /\ prev.ret = MapPut(EmptyMap, n, TRUE)
           /\ last.returned /\ last.ret = MapPut(EmptyMap, n, FALSE)
           /\ entry_at(FS, EnabledLoc(n)).kind = "link"

\* C2: enable(name) on an installed, not yet linked plugin succeeds, the
\* enabled root exists afterwards and holds a link for the name whose target
\* is the plugin directory under the available root; the available roots are
\* unchanged (stated for the POSIX environment).
C2_EnableCreatesLink ==
    \A n \in Names :
        (/\ Posix
         /\ last.op = "enable" /\ last.names = <<n>>
         /\ Installed(last.pre, n) /\ Unlinked(last.pre, n))
        => /\ last.err = "none"
           /\ enabled_dir
           /\ enabled[n] = LinkEntry(AvailLoc(find_available(last.pre, n), n))
           /\ available = last.pre.available

\* C3: disable on an enabled plugin removes only the link: the entry under
\* the enabled root is gone, both available roots (directories and their
\* descriptors) are as before, and no entry of an unnamed plugin changes.
C3_DisableRemovesOnlyLink ==
    last.op = "disable" =>
        /\ available = last.pre.available
        /\ enabled_dir = last.pre.enabled_dir
        /\ \A m \in Names \ Range(last.names) : enabled[m] = last.pre.enabled[m]
        /\ path_exists(last.pre, EnabledLoc(last.names[1]))
              => Unlinked(FS, last.names[1])
        /\ last.err = "none" => \A n \in Range(last.names) : Unlinked(FS, n)

C3_Witness ==
    /\ last.op = "disable" /\ last.err = "none"
    /\ last.pre.enabled[last.names[1]].kind = "link"
    /\ Unlinked(FS, last.names[1])
    /\ entry_at(FS, last.pre.enabled[last.names[1]].to).kind = "dir"

\* C4: disable of a name that has no entry under the enabled root raises
\* IOError (NotFound) and leaves the enabled root and both available roots
\* exactly as they were.
C4_DisableMissingFails ==
    (last.op = "disable" /\ Unlinked(last.pre, last.names[1]))
        => /\ last.err = "IOError"
           /\ ~last.returned
           /\ FS = last.pre

C4_Witness ==
    /\ last.op = "disable" /\ Unlinked(last.pre, last.names[1])
    /\ last.err = "IOError"
    /\ \E m \in Names : enabled_dir /\ enabled[m].kind = "link"

\* C5: enable looks the name up in the etc (user) root first and the share
\* (system) root second: found in neither, it raises IOError (NotFound) and
\* creates no link; found in both, the link it creates targets the directory
\* of the etc root (stated for the POSIX environment).
C5_EnableSearchOrder ==
    \A n \in Names :
        (Posix /\ last.op = "enable" /\ last.names = <<n>>) =>
            /\ ~Installed(last.pre, n)
                  => last.err = "IOError" /\ enabled = last.pre.enabled
            /\ (/\ last.pre.available["etc"][n].kind = "dir"
                /\ last.pre.available["share"][n].kind = "dir"
                /\ Unlinked(last.pre, n))
                  => enabled[n] = LinkEntry(AvailLoc("etc", n))

\* C9: a sweep run while a link's target directory is gone removes that link
\* and returns it, and a sweep run right after it returns the empty list.
C9_SweepRemovesBroken ==
    \A n \in Names :
        (last.op = "sweep" /\ is_broken_link(last.pre, EnabledLoc(n)))
        => /\ last.returned
           /\ n \in last.removed
           /\ Unlinked(FS, n)
           /\ remove_broken_links(FS, {}).returned
           /\ remove_broken_links(FS, {}).removed = {}

(***************************************************************************)
(* commands.py: plugin directories and archives                            *)
(***************************************************************************)
MaxScratch == 1    \* scratch directories that may pile up in the temp dir
MaxReleases == 2   \* releases returned by one index lookup

\* Top level entries of a plugin directory or archive: the descriptor file
\* and "subdir", a sub-directory that holds files of its own (e.g. the
\* hooks/Windows directory read by hooks.on_plugin_install).
Items == {"properties.yml", "subdir"}
NoProps == [package_name |-> "", version |-> 0]
None == 0
PropsSet == [package_name : Names, version : Versions]
PluginDir(items, props) ==
    [kind |-> "dir", items |-> items,
     props |-> IF "properties.yml" \in items THEN props ELSE NoProps]

\* A plugin archive (.tar.gz): whether tarfile.open accepts it (if not,
\* whether the stream is empty or holds bytes that are no gzip data), its
\* members, the content of its properties.yml and whether extractall runs
\* through.
Archives ==
    {a \in [readable : BOOLEAN, empty : BOOLEAN, items : SUBSET Items,
            props : PropsSet \cup {NoProps}, extract_ok : BOOLEAN] :
        /\ ("properties.yml" \in a.items) <=> (a.props # NoProps)
        /\ ~a.readable => (a.items = {} /\ a.extract_ok)
        /\ a.empty => ~a.readable
        /\ ~a.extract_ok => a.items # {}}

\* Position of the stream once tarfile.open(mode="r:gz", fileobj=fileobj)
\* has raised ReadError: open reads the gzip header through fileobj, which
\* moves the position unless there is nothing to read
open_failed(a) == IF a.empty THEN "start" ELSE "moved"

\* tar.extractall: every member, or (on failure) any proper subset of them
extractall(a) ==
    IF a.extract_ok THEN {[items |-> a.items, err |-> "none"]}
    ELSE {[items |-> X, err |-> "ExtractError"] : X \in (SUBSET a.items) \ {a.items}}

\* for item in plugin_path.glob('*'): item.rmdir() if item.is_dir() else
\* item.unlink(); then plugin_path.rmdir().  rmdir of a sub-directory that is
\* not empty raises OSError; glob order is up to the file system, so any set
\* of the other entries may have been removed before that.
remove_items(items) ==
    IF "subdir" \notin items
    THEN {[left |-> {}, gone |-> TRUE, err |-> "none"]}
    ELSE {[left |-> items \ S, gone |-> FALSE, err |-> "OSError"] :
             S \in SUBSET (items \ {"subdir"})}

(***************************************************************************)
(* commands.uninstall                                                      *)
(***************************************************************************)
uninstall(pl, plugin_package) ==
    LET plugin_path == pl[plugin_package]
    IN  IF plugin_path.kind # "dir"
        THEN {[plugins |-> pl, err |-> "IOError"]}
        ELSE {[plugins |-> [pl EXCEPT ![plugin_package] =
                              IF r.gone THEN NoEntry
                              ELSE PluginDir(r.left, plugin_path.props)],
               err |-> r.err] : r \in remove_items(plugin_path.items)}

(***************************************************************************)
(* commands.extract_metadata                                               *)
(***************************************************************************)
\* Result: the metadata (or the error raised), whether the mpm- scratch
\* directory is left behind in the temp dir, and where fileobj is positioned.
extract_metadata(a) ==
    IF ~a.readable
    \* line 271 is outside the try: no scratch directory yet, no seek
    THEN {[metadata |-> NoProps, err |-> "ReadError", left |-> FALSE,
           stream |-> open_failed(a)]}
    ELSE UNION {
      {LET body_err == IF x.err # "none" THEN x.err
                       ELSE IF "properties.yml" \notin x.items
                       THEN "FileNotFoundError" ELSE "none"
       IN  \* finally: fileobj.seek(0), then the clean-up loop; an error
           \* raised in the loop replaces the pending return value or exception
           IF c.err # "none"
           THEN [metadata |-> NoProps, err |-> c.err, left |-> TRUE,
                 stream |-> "start"]
           ELSE [metadata |-> IF body_err = "none" THEN a.props ELSE NoProps,
                 err |-> body_err, left |-> FALSE, stream |-> "start"]
       : c \in remove_items(x.items)} : x \in extractall(a)}

(***************************************************************************)
(* commands.install_fileobj                                                *)
(***************************************************************************)
\* entry: what is at plugin_path before the call.  Result: what is there
\* afterwards, the metadata read, the error raised (if any) and where fileobj
\* is positioned (fileobj.seek(0) is the last statement of the try block).
install_fileobj(a, entry) ==
    IF ~a.readable
    THEN {[entry |-> entry, metadata |-> NoProps, err |-> "ReadError",
           stream |-> open_failed(a)]}
    ELSE
      {LET before == IF entry.kind = "dir" THEN entry.items ELSE {}
           items == before \cup x.items
           \* extractall creates plugin_path along with the first member
           present == entry.kind = "dir" \/ x.items # {}
           props == IF "properties.yml" \in x.items THEN a.props
                    ELSE IF entry.kind = "dir" THEN entry.props ELSE NoProps
           after == IF present THEN PluginDir(items, props) ELSE entry
           body_err == IF x.err # "none" THEN x.err
                       ELSE IF "properties.yml" \notin items
                       THEN "FileNotFoundError" ELSE "none"
       IN  IF body_err = "none"
           THEN [entry |-> after, metadata |-> props, err |-> "none",
                 stream |-> "start"]
           \* except: plugin_path.rmdir(); raise
           ELSE IF ~present
           THEN [entry |-> after, metadata |-> NoProps, err |-> "FileNotFoundError",
                 stream |-> "moved"]
           ELSE IF items # {}
           THEN [entry |-> after, metadata |-> NoProps, err |-> "OSError",
                 stream |-> "moved"]
           ELSE [entry |-> NoEntry, metadata |-> NoProps, err |-> body_err,
                 stream |-> "moved"]
       : x \in extractall(a)}

(***************************************************************************)
(* commands.install                                                        *)
(***************************************************************************)
\* A request: a local archive file, or a name looked up in the plugin index
\* (get_releases), the releases the index returns for it in the index's
\* order, the archive served for the chosen release and whether the download
\* gets through.  asserts: assert statements are executed (no python -O).
\* releases is a dict keyed by version: no version occurs twice
Releases ==
    {r \in UNION {[1..k -> Versions] : k \in 0..MaxReleases} :
        \A i, j \in DOMAIN r : i # j => r[i] # r[j]}
Requests ==
    {q \in [is_file : BOOLEAN, name : Names, releases : Releases,
            archive : Archives, download_ok : BOOLEAN, asserts : BOOLEAN] :
        \* fields a request does not use are fixed, not enumerated
        /\ q.is_file => (q.releases = <<>> /\ q.download_ok /\ q.name = "p"
                         /\ q.asserts)
        /\ (~q.is_file /\ (q.releases = <<>> \/ ~q.download_ok))
              => (~q.archive.readable /\ ~q.archive.empty /\ q.asserts)
        /\ (~q.is_file /\ q.releases = <<>>) => q.download_ok
        \* the assert is reached with a descriptor that can differ from the
        \* target only after a complete extraction
        /\ ~q.asserts => /\ q.archive.extract_ok /\ q.archive.props # NoProps
                         /\ q.archive.props #
                              [package_name |-> q.name,
                               version |-> q.releases[Len(q.releases)]]}


\* stage: the statement of install at which the call ended.  streams: where
\* the stream handed to extract_metadata and the one handed to
\* install_fileobj are positioned ("none": the function was not called).
Streams(metadata, fileobj) == [metadata |-> metadata, fileobj |-> fileobj]
Outcome(pl, sc, err, name, version, resolved, fetched, stage, streams) ==
    [plugins |-> pl, scratch |-> sc, err |-> err, returned |-> err = "none",
     name |-> name, version |-> version, resolved |-> resolved,
     fetched |-> fetched, stage |-> stage, streams |-> streams]

\* a file request went through extract_metadata, which returned
metadata_stream(q) == IF q.is_file THEN "start" ELSE "none"

\* lines 215-253: fetch the archive, extract it, verify the descriptor
install_fetch(q, pl, sc, name, version) ==
    IF ~q.is_file /\ ~q.download_ok
    THEN {Outcome(pl, sc, "ConnectionError", name, version, TRUE, TRUE,
                  "download", Streams(metadata_stream(q), "none"))}
    ELSE
      {LET pl2 == [pl EXCEPT ![name] = r.entry]
           match == r.metadata.package_name = name /\ r.metadata.version = version
           streams == Streams(metadata_stream(q), r.stream)
       IN  IF r.err # "none"
           THEN Outcome(pl2, sc, r.err, name, version, TRUE, ~q.is_file,
                        "install_fileobj", streams)
           ELSE IF q.asserts /\ ~match
           THEN Outcome(pl2, sc, "AssertionError", name, version, TRUE, ~q.is_file,
                        "verify", streams)
           ELSE Outcome(pl2, sc, "none", name, version, TRUE, ~q.is_file,
                        "done", streams)
       : r \in install_fileobj(q.archive, pl[name])}

\* (mutant) the comparison with the installed version is dropped
never_installed(version, existing_version) == FALSE

\* line 206: if version == existing_version
already_installed(version, existing_version) == version = existing_version

\* lines 193-213: compare with the installed version, uninstall it
install_check(q, pl, sc, name, version) ==
    LET plugin_path == pl[name]
        streams == Streams(metadata_stream(q), "none")
    IN  IF plugin_path.kind = "dir" /\ "properties.yml" \notin plugin_path.items
        THEN {Outcome(pl, sc, "FileNotFoundError", name, version, TRUE, FALSE,
                      "existing_version", streams)}
        ELSE
          LET existing_version == IF plugin_path.kind = "dir"
                                  THEN plugin_path.props.version ELSE None
          IN  IF already_installed(version, existing_version)
              THEN {Outcome(pl, sc, "ValueError", name, version, TRUE, FALSE,
                            "existing_version", streams)}
              ELSE IF existing_version # None
              THEN UNION {IF u.err # "none"
                          THEN {Outcome(u.plugins, sc, u.err, name, version, TRUE,
                                        FALSE, "uninstall", streams)}
                          ELSE install_fetch(q, u.plugins, sc, name, version)
                          : u \in uninstall(pl, name)}
              ELSE install_fetch(q, pl, sc, name, version)

\* the version install picks from the releases returned by the index
latest_release(releases) == releases[Len(releases)]

install(q, pl, sc) ==
    IF q.is_file
    THEN UNION {IF m.err # "none"
                THEN {Outcome(pl, sc + (IF m.left THEN 1 ELSE 0), m.err,
                              "", None, FALSE, FALSE, "extract_metadata",
                              Streams(m.stream, "none"))}
                ELSE install_check(q, pl, sc, m.metadata.package_name,
                                   m.metadata.version)
                : m \in extract_metadata(q.archive)}
    ELSE IF q.releases = <<>>
    THEN {Outcome(pl, sc, "IndexError", q.name, None, FALSE, FALSE,
                  "get_releases", Streams("none", "none"))}
    ELSE install_check(q, pl, sc, q.name, latest_release(q.releases))

(***************************************************************************)
(* commands.freeze                                                         *)
(***************************************************************************)
\* one (package_name, version) pair, printed as name==version, for every
\* directory whose properties.yml is readable and names the directory
freeze(pl) ==
    {<<pl[n].props.package_name, pl[n].props.version>> :
        n \in {m \in Names : /\ pl[m].kind = "dir"
                             /\ "properties.yml" \in pl[m].items
                             /\ pl[m].props.package_name = m}}

(***************************************************************************)
(* SpecCmd: archive based install / uninstall / freeze                     *)
(***************************************************************************)
\* the archive is well formed, carries the resolved name and version, and
\* the download gets through
GoodRequest(q, name, version) ==
    /\ q.archive.readable /\ q.archive.extract_ok
    /\ q.archive.props = [package_name |-> name, version |-> version]
    /\ q.download_ok

\* no release returned by the index has a version above the one picked
Newest(q, version) == \A i \in DOMAIN q.releases : q.releases[i] <= version

CmdCall(op, name, version, resolved, good, fetched, err, ret, pl, sc, stage, streams, newest) ==
    /\ plugins' = pl
    /\ scratch' = sc
    /\ last' = [op |-> op, name |-> name, version |-> version,
                resolved |-> resolved, good |-> good, fetched |-> fetched,
                returned |-> err = "none", err |-> err, ret |-> ret,
                stage |-> stage, streams |-> streams, newest |-> newest]
    /\ prev' = IF last.op = "install" /\ last.returned
               THEN [op |-> "install", name |-> last.name, version |-> last.version]
               ELSE NoCall
    /\ UNCHANGED <<actVars, revVars, dialog>>

CmdInstall ==
    \E q \in Requests :
        \E o \in install(q, plugins, scratch) :
            /\ o.scratch <= MaxScratch
            /\ CmdCall("install", o.name, o.version, o.resolved,
                       GoodRequest(q, o.name, o.version), o.fetched, o.err, {},
                       o.plugins, o.scratch, o.stage, o.streams,
                       Newest(q, o.version))

CmdUninstall ==
    \E plugin_package \in Names :
        \E u \in uninstall(plugins, plugin_package) :
            CmdCall("uninstall", plugin_package, None, FALSE, FALSE, FALSE,
                    u.err, {}, u.plugins, scratch, "none", Streams("none", "none"),
                    TRUE)

CmdFreeze ==
    CmdCall("freeze", "", None, FALSE, FALSE, FALSE, "none", freeze(plugins),
            plugins, scratch, "none", Streams("none", "none"), TRUE)

NextCmd ==
    \/ CmdInstall
    \/ CmdUninstall
    \/ CmdFreeze

InitCmd ==
    /\ platform = "Linux"
    /\ prefixKind = "pathlib"
    /\ InitFiles

SpecCmd == InitCmd /\ [][NextCmd]_vars

(***************************************************************************)
(* Install / uninstall claims (checked under SpecCmd)                      *)
(***************************************************************************)
HasVersion(pl, n, v) ==
    /\ pl[n].kind = "dir"
    /\ "properties.yml" \in pl[n].items
    /\ pl[n].props.version = v

\* C6: uninstall(P) right after a successful install of P leaves no
\* directory named P under the plugins directory, and freeze does not list P.
C6_InstallUninstallRoundTrip ==
    (prev.op = "install" /\ last.op = "uninstall" /\ last.name = prev.name)
    => /\ plugins[last.name].kind = "none"
       /\ \A e \in freeze(plugins) : e[1] # last.name

\* C7: an install whose resolved version equals the version in the installed
\* descriptor of the package raises ValueError (already installed), and the
\* step changes neither the plugins directory nor the temp dir and fetches
\* nothing.
C7_AlreadyInstalled ==
    [][(/\ last'.op = "install" /\ last'.resolved
        /\ HasVersion(plugins, last'.name, last'.version))
       => (/\ last'.err = "ValueError"
           /\ plugins' = plugins
           /\ scratch' = scratch
           /\ ~last'.fetched)]_vars

C7_Witness ==
    /\ prev.op = "install" /\ last.op = "install"
    /\ last.name = prev.name /\ last.version = prev.version
    /\ last.err = "ValueError"
    /\ HasVersion(plugins, last.name, last.version)

\* C8: install(P, v2) right after a successful install(P, v1), v2 # v1, with
\* a well-formed archive for v2, ends with one directory for P whose
\* descriptor reports v2.
C8_ReplaceOnUpgrade ==
    (/\ prev.op = "install" /\ last.op = "install"
     /\ last.resolved /\ last.good
     /\ last.name = prev.name /\ last.version # prev.version)
    => HasVersion(plugins, last.name, last.version)

(***************************************************************************)
(* api.py: Conda environment revisions and action records                  *)
(***************************************************************************)
\* One entry of `conda list --revisions --json`
Revision(n) == [type |-> "dict", rev |-> n]
PyInt(n) == [type |-> "int", val |-> n]

\* str(x): the decimal digits of an int; the repr of anything else
py_str(x) ==
    IF x.type = "int" THEN [numeric |-> TRUE, val |-> x.val]
    ELSE [numeric |-> FALSE, val |-> -1]

\* The environment's own revision counter: a transaction appends a revision
conda_transaction(revs) == Append(revs, Revision(revs[Len(revs)].rev + 1))

\* An action file rev<N>.json.bz2 (or a raw rev<N>.json)
ActionFile(n, ext, action) ==
    [rev |-> n, ext |-> ext, conda_args |-> action.conda_args,
     revisions |-> action.revisions]

\* (mutant) a file also replaces the files of lower number
SameOrOlder(a, b) == a.rev <= b.rev /\ a.ext = b.ext

\* two files of the same name: bz2.open(action_path, mode='wt') truncates
SameName(a, b) == a.rev = b.rev /\ a.ext = b.ext

\* (mutant) the file is numbered by a count of the files already written
save_action_counted(acts, revs, conda_args) ==
    LET action == [conda_args |-> conda_args, revisions |-> revs]
        file == ActionFile(Cardinality(acts) + 1, "bz2", action)
    IN  {a \in acts : ~SameName(a, file)} \cup {file}

\* api._save_action: the file is named after the last revision of the list
save_action(acts, revs, conda_args) ==
    LET action == [conda_args |-> conda_args, revisions |-> revs]
        file == ActionFile(revs[Len(revs)].rev, "bz2", action)
    IN  {a \in acts : ~SameName(a, file)} \cup {file}

(***************************************************************************)
(* api.install                                                             *)
(***************************************************************************)
\* What `conda install -y --json <args> <names>` does:
\*   "http_error"  RuntimeError mentioning CondaHTTPError
\*   "error"       any other RuntimeError
\*   "noop"        a log without 'actions' (nothing to do)
\*   "dry_run"     a log with 'actions' and dry_run set, environment untouched
\*   "done"        a log with 'actions', the transaction was executed
CondaOutcomes(dry_run) ==
    IF dry_run THEN {"http_error", "error", "noop", "dry_run"}
    ELSE {"http_error", "error", "noop", "done"}

\* (mutant) the action is saved whenever the log lists actions
saves_action_always(install_log) == install_log.actions

\* line 228: if 'actions' in install_log and not install_log.get('dry_run')
saves_action(install_log) == install_log.actions /\ ~install_log.dry_run

api_install(revs, acts, plugin_names, dry_run, outcome) ==
    LET conda_args == [names |-> plugin_names, dry_run |-> dry_run]
        revs2 == IF outcome = "done" THEN conda_transaction(revs) ELSE revs
        install_log == [actions |-> outcome \in {"dry_run", "done"},
                        dry_run |-> outcome = "dry_run"]
    IN  IF outcome \in {"http_error", "error"}
        THEN [revisions |-> revs, actions |-> acts, returned |-> FALSE,
              err |-> IF outcome = "http_error" THEN "CondaHTTPError"
                      ELSE "RuntimeError",
              log |-> [actions |-> FALSE, dry_run |-> FALSE]]
        ELSE [revisions |-> revs2,
              actions |-> IF saves_action(install_log)
                          THEN save_action(acts, revs2, conda_args) ELSE acts,
              returned |-> TRUE, err |-> "none",
              log |-> install_log]

(***************************************************************************)
(* api.rollback                                                            *)
(***************************************************************************)
\* (mutant) the oldest revision of the environment is reported
first_revision(revs) == revs[1].rev

\* lines 275-278: revisions[-1]['rev']
current_revision(revs) == revs[Len(revs)].rev

\* lines 281-286: the action files with the greatest revision number; the
\* sort is on the number alone, so files of equal number keep glob's order
latest_action_files(acts) ==
    {a \in acts : \A b \in acts : b.rev <= a.rev}

\* `conda install --json --revision <arg>`: Conda takes a revision number
conda_install_revision(revs, arg) ==
    IF arg.numeric /\ arg.val \in {r.rev : r \in {revs[i] : i \in DOMAIN revs}}
    THEN [revisions |-> conda_transaction(revs), applied |-> arg.val, err |-> "none"]
    ELSE [revisions |-> revs, applied |-> -1, err |-> "RuntimeError"]

NotApplied == -1
NoTarget == PyInt(-1)

\* (mutant) the last entry is taken when there is no entry before it
rollback_revision_or_last(history) ==
    IF Len(history) < 1 THEN [err |-> "IndexError", value |-> NoTarget]
    ELSE IF Len(history) < 2 THEN [err |-> "none", value |-> history[1]]
    ELSE [err |-> "none", value |-> history[Len(history) - 1]]

\* line 297: action['revisions'][-2]
rollback_revision(history) ==
    IF Len(history) < 2 THEN [err |-> "IndexError", value |-> NoTarget]
    ELSE [err |-> "none", value |-> history[Len(history) - 1]]

\* target: the value of rollback_revision handed to Conda, if one was
rollback(revs, acts) ==
    IF acts = {}
    THEN {[revisions |-> revs, returned |-> TRUE, err |-> "none",
           ret |-> PyInt(current_revision(revs)), applied |-> NotApplied,
           target |-> NoTarget]}
    ELSE
      {LET t == rollback_revision(action.revisions)
       IN  IF t.err # "none"
           THEN [revisions |-> revs, returned |-> FALSE, err |-> t.err,
                 ret |-> PyInt(-1), applied |-> NotApplied, target |-> NoTarget]
           ELSE LET c == conda_install_revision(revs, py_str(t.value))
                IN  [revisions |-> c.revisions, returned |-> c.err = "none",
                     err |-> c.err,
                     ret |-> IF c.err = "none" THEN t.value ELSE PyInt(-1),
                     applied |-> c.applied, target |-> t.value]
       : action \in latest_action_files(acts)}

(***************************************************************************)
(* SpecRev: Conda install, action records, rollback                        *)
(***************************************************************************)
RevCall(op, names, dry_run, r, ret, applied, acts, target) ==
    /\ revisions' = r.revisions
    /\ actions' = acts
    /\ last' = [op |-> op, names |-> names, dry_run |-> dry_run,
                returned |-> r.returned, err |-> r.err, ret |-> ret,
                applied |-> applied, target |-> target]
    \* prev remembers a rollback that a rollback follows directly
    /\ prev' = IF op = "rollback" /\ last.op = "rollback"
               THEN [op |-> "rollback", target |-> last.target]
               ELSE NoCall
    /\ UNCHANGED <<packages, actVars, cmdVars, dialog>>

\* plugin_name : str or list
PackageArgs == {<<n>> : n \in Names} \cup {<<"p", "q">>}

ApiInstall ==
    \E plugin_names \in PackageArgs, dry_run \in BOOLEAN :
        \E outcome \in CondaOutcomes(dry_run) :
            /\ outcome = "done" => current_revision(revisions) < MaxRev
            /\ LET r == api_install(revisions, actions, plugin_names, dry_run, outcome)
               IN  RevCall("install", plugin_names, dry_run, r, r.log,
                           NotApplied, r.actions, NoTarget)

\* (mutant) the action file that was read is removed
RollbackConsumes ==
    \E r \in rollback(revisions, actions) :
        /\ r.applied # NotApplied => current_revision(revisions) < MaxRev
        /\ RevCall("rollback", <<>>, FALSE, r, r.ret, r.applied,
                   actions \ latest_action_files(actions), r.target)

Rollback ==
    \E r \in rollback(revisions, actions) :
        /\ r.applied # NotApplied => current_revision(revisions) < MaxRev
        /\ RevCall("rollback", <<>>, FALSE, r, r.ret, r.applied, actions,
                   r.target)

\* The environment is changed with Conda directly, not through the manager.
EnvConda ==
    /\ current_revision(revisions) < MaxRev
    /\ revisions' = conda_transaction(revisions)
    /\ last' = NoCall
    /\ prev' = NoCall
    /\ UNCHANGED <<actions, packages, actVars, cmdVars, dialog>>

NextRev ==
    \/ ApiInstall
    \/ Rollback
    \/ EnvConda

InitRev ==
    /\ platform = "Linux"
    /\ prefixKind = "pathlib"
    /\ InitFiles

SpecRev == InitRev /\ [][NextRev]_vars

(***************************************************************************)
(* Rollback claims (checked under SpecRev)                                 *)
(***************************************************************************)
\* C10: a rollback step taken while no action file is present returns the
\* latest revision number of the environment, applies no revision through
\* Conda, and leaves the action directory empty and the revision list as it
\* was.
C10_RollbackNoRecords ==
    [][(last'.op = "rollback" /\ actions = {})
       => (/\ last'.returned
           /\ last'.ret = PyInt(revisions[Len(revisions)].rev)
           /\ last'.applied = NotApplied
           /\ actions' = {}
           /\ revisions' = revisions)]_vars

C10_Witness ==
    /\ last.op = "rollback" /\ actions = {}
    /\ Len(revisions) > 1
    /\ last.ret = PyInt(Len(revisions) - 1)

(***************************************************************************)
(* Action record claims                                                    *)
(***************************************************************************)
\* C11: every install step of commands.install that returns, for a
\* well-formed archive of the resolved name and version, leaves the descriptor
\* of that version on disk and adds exactly one action file, named after the
\* environment's latest revision, to the actions directory.
C11_InstallAppendsRecord ==
    [][(last'.op = "install" /\ last'.returned /\ last'.good)
       => (/\ HasVersion(plugins', last'.name, last'.version)
           /\ \E f \in actions' :
                 /\ f \notin actions
                 /\ actions' = actions \cup {f}
                 /\ f.rev = current_revision(revisions'))]_vars

\* C12: an api.install step run with --dry-run writes no action file and
\* leaves the environment's revision list as it was, also when the log Conda
\* returns lists the actions it would perform.
C12_DryRunFrame ==
    [][(last'.op = "install" /\ last'.dry_run)
       => (actions' = actions /\ revisions' = revisions)]_vars

C12_Witness ==
    /\ last.op = "install" /\ last.dry_run
    /\ last.returned /\ last.ret.actions /\ last.ret.dry_run
    /\ actions # {}

\* C13: a rollback run while action files are present, the most recent of
\* them holding a revision history of two or more entries, returns, has
\* applied through Conda the revision number of the second-to-last entry of
\* that history, and its return value is that revision number.
C13_RollbackTarget ==
    (last.op = "rollback" /\ actions # {}) =>
        \A action \in latest_action_files(actions) :
            Len(action.revisions) >= 2 =>
                LET target == action.revisions[Len(action.revisions) - 1].rev
                IN  /\ last.returned
                    /\ last.applied = target
                    /\ last.ret = PyInt(target)

(***************************************************************************)
(* api.uninstall claims (checked under SpecAct)                            *)
(***************************************************************************)
\* C14: an api.uninstall call in which one of the requested names has no
\* directory under the share available root raises IOError (NotFound),
\* sweeps no link, and leaves the available roots and the enabled root as
\* they were: no package of the list is removed.
C14_UninstallMissingFails ==
    (/\ last.op = "uninstall"
     /\ \E i \in DOMAIN last.names :
           ~path_exists(last.pre, AvailLoc("share", plugin_module(last.names[i]))))
    => /\ last.err = "IOError"
       /\ ~last.returned
       /\ last.removed = {}
       /\ FS = last.pre

\* a list whose first name is installed and whose second is not, given
\* while a broken link waits to be swept
C14_Witness ==
    /\ last.op = "uninstall" /\ last.names = <<"p", "q">>
    /\ last.err = "IOError"
    /\ available["share"]["p"].kind = "dir"
    /\ available["share"]["q"].kind = "none"
    /\ platform = "Windows"
    /\ \E n \in Names : is_broken_link(FS, EnabledLoc(n))

\* C15: an api.uninstall call that removed the share directory of a plugin
\* that was linked under the enabled root returns, and when it returns no
\* link for that plugin is left under the enabled root.
C15_UninstallSweepsLinks ==
    \A n \in Names :
        (/\ last.op = "uninstall"
         /\ last.pre.enabled_dir
         /\ last.pre.enabled[n] = LinkEntry(AvailLoc("share", n))
         /\ last.pre.available["share"][n].kind = "dir"
         /\ available["share"][n].kind = "none")
        => /\ last.returned
           /\ Unlinked(FS, n)

(***************************************************************************)
(* Archive install claims (checked under SpecCmd)                          *)
(***************************************************************************)
\* C16: whenever commands.install returns, the descriptor installed under
\* the plugins directory carries the package name and the version install
\* had resolved.
C16_VerifiesDescriptor ==
    (last.op = "install" /\ last.returned)
    => /\ HasVersion(plugins, last.name, last.version)
       /\ plugins[last.name].props.package_name = last.name

\* C17: when an install ends with an error raised by install_fileobj
\* (archive not readable, extraction failed, properties.yml missing), no
\* directory is left at the target path.
C17_NoPartialInstall ==
    (last.op = "install" /\ last.stage = "install_fileobj")
    => plugins[last.name].kind = "none"

\* C18: an install step that went through extract_metadata, whether that
\* returned the descriptor or raised, leaves no additional scratch directory
\* in the temp dir.
C18_ScratchDeleted ==
    [][(last'.op = "install" /\ last'.streams.metadata # "none")
       => scratch' = scratch]_vars

\* C19: when install ends, by return or by exception, the stream that was
\* handed to extract_metadata and the stream that was handed to
\* install_fileobj are positioned at their start.
C19_StreamRewound ==
    last.op = "install"
    => /\ last.streams.metadata # "moved"
       /\ last.streams.fileobj # "moved"

(***************************************************************************)
(* Action file numbering (checked under SpecRev)                           *)
(***************************************************************************)
\* C20: every step that changes the actions directory adds exactly one
\* file; the number in its name is the environment's latest revision number
\* after the step, and it is greater than the number of every action file
\* written before.
C20_SequenceNumbers ==
    [][actions' # actions
       => \E f \in actions' \ actions :
             /\ actions' = actions \cup {f}
             /\ f.rev = current_revision(revisions')
             /\ \A a \in actions : a.rev < f.rev]_vars

\* two action files whose numbers are not consecutive: the environment was
\* changed with Conda directly between the two installs
C20_Witness ==
    /\ last.op = "install" /\ last.returned
    /\ \E a, b \in actions :
          /\ a.rev + 1 < b.rev
          /\ b.rev = current_revision(revisions)

\* C21: no step of install, rollback or a direct Conda transaction removes
\* or changes an action file: every file of the actions directory is still
\* there, with the same name and content, after the step.
C21_RecordsKept ==
    [][\A a \in actions : a \in actions']_vars

\* a second record was written and a rollback was attempted afterwards
C21_Witness ==
    /\ last.op = "rollback"
    /\ Cardinality(actions) >= 2

(***************************************************************************)
(* api.installed_plugins / api.enabled_plugins                             *)
(***************************************************************************)
MaxUpdates == 1    \* update transactions executed in one behaviour

\* a real directory whose properties.yml is missing or cannot be parsed
UnreadableDir == [kind |-> "dir", package_name |-> "", version |-> 0]
FileEntry == [kind |-> "file"]

\* Python values of different types never compare equal
PyStr(s) == [type |-> "str", val |-> s]
\* one element of the list ch.package_version returns
PackageInfo(n) == [type |-> "dict", name |-> n]

\* Path.is_dir(): follows links
is_dir(fs, loc) ==
    LET e == entry_at(fs, loc)
    IN  \/ e.kind = "dir"
        \/ e.kind = "link" /\ entry_at(fs, e.to).kind = "dir"

\* (plugin_path / 'properties.yml').open('r'), yaml.safe_load and
\* plugin_path.resolve(): the directory reached through the link, if any
resolve(fs, loc) ==
    LET e == entry_at(fs, loc) IN IF e.kind = "link" THEN e.to ELSE loc
has_properties(fs, loc) ==
    LET e == entry_at(fs, resolve(fs, loc))
    IN  e.kind = "dir" /\ e.package_name # ""
properties(fs, loc) ==
    LET e == entry_at(fs, resolve(fs, loc))
    IN  [package_name |-> e.package_name, version |-> e.version,
         path |-> resolve(fs, loc)]

\* ch.package_version(package_names): the package infos of the names, or
\* PackageNotFound carrying the infos of those that are installed
package_version(package_names, pkgs) ==
    LET found == {PackageInfo(n) : n \in package_names \cap pkgs}
    IN  IF package_names \subseteq pkgs
        THEN [err |-> "none", infos |-> found]
        ELSE [err |-> "PackageNotFound", infos |-> found]

\* (mutant) every entry of the share root that is a directory is listed
listed_entry_any_dir(fs, loc) == is_dir(fs, loc)

\* line 607: not plugin_path.is_dir() or plugin_path.is_symlink(): continue
listed_entry(fs, loc) == is_dir(fs, loc) /\ ~is_symlink(fs, loc)

installed_plugins(fs, only_conda, pkgs) ==
    LET installed_plugins_ ==
            {properties(fs, AvailLoc("share", n)) :
                n \in {m \in Names : /\ listed_entry(fs, AvailLoc("share", m))
                                     /\ has_properties(fs, AvailLoc("share", m))}}
        package_names == {plugin.package_name : plugin \in installed_plugins_}
        v == package_version(package_names, pkgs)
    IN  IF ~only_conda THEN installed_plugins_
        ELSE IF v.err = "none"
        THEN LET installed_package_names == {pkg_info.name : pkg_info \in v.infos}
             IN  {plugin \in installed_plugins_ :
                     plugin.package_name \in installed_package_names}
        \* line 630: plugin['package_name'] in exception.available
        ELSE {plugin \in installed_plugins_ :
                 PyStr(plugin.package_name) \in v.infos}

enabled_plugins(fs, installed_only, pkgs) ==
    LET enabled_plugins_ ==
            {properties(fs, EnabledLoc(n)) :
                n \in {m \in Names :
                        /\ entry_at(fs, EnabledLoc(m)).kind # "none"
                        /\ (~installed_only \/ is_symlink(fs, EnabledLoc(m)))
                        /\ has_properties(fs, EnabledLoc(m))}}
        package_names == {plugin.package_name : plugin \in enabled_plugins_}
        v == package_version(package_names, pkgs)
    IN  IF ~installed_only THEN enabled_plugins_
        ELSE IF v.err = "none"
        THEN LET installed_package_names == {info.name : info \in v.infos}
             IN  {plugin \in enabled_plugins_ :
                     plugin.package_name \in installed_package_names}
        ELSE LET available_names == {package.name : package \in v.infos}
             IN  {plugin \in enabled_plugins_ :
                     plugin.package_name \in available_names}

(***************************************************************************)
(* api.update                                                              *)
(***************************************************************************)
\* the package_name keyword: left out, or a list of names
Omitted == [given |-> FALSE, names |-> <<>>]
Given(names) == [given |-> TRUE, names |-> names]
UpdateArgs == {Omitted, Given(<<"p">>), Given(<<"p", "q">>)}

\* the names of a set as a list (iterdir yields them in directory order)
name_list(S) == SelectSeq(<<"ns.q", "p", "q">>, LAMBDA x : x \in S)

\* the empty dict update returns when it has nothing to do
EmptyLog == [actions |-> FALSE, dry_run |-> FALSE, empty |-> TRUE]
NotCalled == <<>>

\* (mutant) the error of install is logged and update returns
update_swallows(err) == "none"

\* lines 520-526: a RuntimeError mentioning CondaHTTPError becomes
\* IOError('Error accessing update server.'); anything else is re-raised
update_raises(err) == IF err = "CondaHTTPError" THEN "IOError" ELSE err

\* called: the names handed to install (NotCalled if install was not run);
\* conda: what the Conda command of that install did
update(fs, pkgs, revs, acts, package_name, outcome) ==
    LET installed_plugins_ == installed_plugins(fs, TRUE, pkgs)
        plugin_packages == name_list({plugin.package_name :
                                        plugin \in installed_plugins_})
    IN  IF installed_plugins_ = {}
        THEN [revisions |-> revs, actions |-> acts, returned |-> TRUE,
              err |-> "none", ret |-> EmptyLog, called |-> NotCalled,
              conda |-> "none"]
        ELSE LET names == IF package_name.given THEN package_name.names
                          ELSE plugin_packages
                 r == api_install(revs, acts, names, FALSE, outcome)
                 err == update_raises(r.err)
             IN  [revisions |-> r.revisions, actions |-> r.actions,
                  returned |-> err = "none", err |-> err,
                  ret |-> [actions |-> r.log.actions, dry_run |-> r.log.dry_run,
                           empty |-> FALSE],
                  called |-> names, conda |-> outcome]

(***************************************************************************)
(* SpecLst: listing the installed / enabled plugins, update                *)
(***************************************************************************)
LstCall(call) ==
    /\ last' = call
    /\ prev' = NoCall
    /\ UNCHANGED <<actVars, cmdVars, dialog>>

InstalledPlugins ==
    \E only_conda \in BOOLEAN :
        /\ LstCall([op |-> "installed_plugins", flag |-> only_conda,
                    ret |-> installed_plugins(FS, only_conda, packages)])
        /\ UNCHANGED revVars

EnabledPlugins ==
    \E installed_only \in BOOLEAN :
        /\ LstCall([op |-> "enabled_plugins", flag |-> installed_only,
                    ret |-> enabled_plugins(FS, installed_only, packages)])
        /\ UNCHANGED revVars

Update ==
    \E package_name \in UpdateArgs, outcome \in CondaOutcomes(FALSE) :
        LET u == update(FS, packages, revisions, actions, package_name, outcome)
        IN  /\ u.revisions # revisions => current_revision(revisions) < MaxUpdates
            /\ revisions' = u.revisions
            /\ actions' = u.actions
            \* an executed transaction leaves the named packages installed
            /\ packages' = IF u.revisions # revisions
                           THEN packages \cup Range(u.called) ELSE packages
            /\ LstCall([op |-> "update", package_name |-> package_name,
                        called |-> u.called, conda |-> u.conda,
                        returned |-> u.returned, err |-> u.err,
                        ret |-> u.ret])

NextLst ==
    \/ InstalledPlugins
    \/ EnabledPlugins
    \/ Update

\* The share root holds, per name, nothing, a plugin directory, a directory
\* without a readable descriptor, a link to a development directory of the
\* etc root, or a plain file; the enabled root holds links and directories.
InitLst ==
    /\ platform = "Linux"
    /\ prefixKind = "pathlib"
    /\ available \in
          {[etc |-> [n \in Names |-> DirEntry(n, 1)], share |-> sh] :
             sh \in {f \in [Names -> {NoEntry, UnreadableDir, FileEntry}
                                     \cup {DirEntry(n, 1) : n \in PackageNames}
                                     \cup {LinkEntry(AvailLoc("etc", n)) : n \in Names}] :
                       \A n \in Names :
                          /\ f[n].kind = "dir" /\ f[n].package_name # ""
                                => plugin_module(f[n].package_name) = n
                          /\ f[n].kind = "link" => f[n].to.name = n}}
    /\ enabled_dir \in BOOLEAN
    /\ enabled \in {f \in [Names -> {NoEntry} \cup {DirEntry(n, 1) : n \in Names}
                                    \cup {LinkEntry(AvailLoc("share", n)) : n \in Names}] :
                      \A n \in Names :
                         /\ ~enabled_dir => f[n] = NoEntry
                         /\ f[n].kind = "dir" => f[n].package_name = n
                         /\ f[n].kind = "link" => f[n].to.name = n}
    /\ packages \in SUBSET PackageNames
    /\ plugins = [n \in Names |-> NoEntry]
    /\ scratch = 0
    /\ revisions = <<[type |-> "dict", rev |-> 0]>>
    /\ actions = {}
    /\ dialog = NoDialog
    /\ last = NoCall
    /\ prev = NoCall

SpecLst == InitLst /\ [][NextLst]_vars

(***************************************************************************)
(* Listing and update claims (checked under SpecLst)                       *)
(***************************************************************************)
\* the plugin directories of the share root with a readable descriptor
ListedShare ==
    {n \in Names : /\ available["share"][n].kind = "dir"
                   /\ available["share"][n].package_name # ""}

\* C22: an update step with package_name left out hands to install exactly
\* the package names of the listed plugin directories that are installed
\* Conda packages; if there is none, install is not run, no action file is
\* written and the empty dict is returned.
C22_UpdateAll ==
    [][(last'.op = "update" /\ ~last'.package_name.given)
       => LET tracked == {available["share"][n].package_name : n \in ListedShare}
                            \cap packages
          IN  IF tracked = {}
              THEN /\ last'.called = NotCalled
                   /\ actions' = actions
                   /\ last'.returned /\ last'.ret = EmptyLog
              ELSE Range(last'.called) = tracked]_vars

\* C23: an update step whose Conda command fails (CondaHTTPError, or any
\* other error of the resolver) does not return: a connectivity failure is
\* raised as IOError, any other as the RuntimeError it was; no action file is
\* written and the environment's revisions are unchanged.
C23_UpdateHardFailure ==
    [][(last'.op = "update" /\ last'.conda \in {"http_error", "error"})
       => (/\ ~last'.returned
           /\ last'.err = (IF last'.conda = "http_error" THEN "IOError"
                           ELSE "RuntimeError")
           /\ actions' = actions
           /\ revisions' = revisions)]_vars

\* a batch of two packages whose update fails on connectivity
C23_Witness ==
    /\ last.op = "update" /\ last.conda = "http_error"
    /\ last.err = "IOError"
    /\ Len(last.called) = 2

\* C25: installed_plugins() returns the descriptors of exactly the entries
\* of the share root that are real directories with a readable descriptor:
\* links, files and directories without a readable descriptor are left out
\* and keep no other entry from being listed.
C25_ListInstalled ==
    (last.op = "installed_plugins" /\ ~last.flag)
    => last.ret = {[package_name |-> available["share"][n].package_name,
                    version |-> available["share"][n].version,
                    path |-> AvailLoc("share", n)] : n \in ListedShare}

\* one entry is listed next to a link, and next to an unreadable directory
C25_Witness ==
    /\ last.op = "installed_plugins" /\ ~last.flag
    /\ last.ret # {}
    /\ \E n \in Names : available["share"][n].kind = "link"

\* C26: with the filter on, installed_plugins returns exactly the listed
\* plugins whose package name is an installed Conda package, and
\* enabled_plugins exactly the linked plugins whose package name is one.
C26_TrackedOnly ==
    /\ (last.op = "installed_plugins" /\ last.flag)
       => last.ret = {plugin \in installed_plugins(FS, FALSE, packages) :
                         plugin.package_name \in packages}
    /\ (last.op = "enabled_plugins" /\ last.flag)
       => last.ret = {properties(FS, EnabledLoc(n)) :
                        n \in {m \in Names :
                                 /\ is_symlink(FS, EnabledLoc(m))
                                 /\ has_properties(FS, EnabledLoc(m))
                                 /\ properties(FS, EnabledLoc(m)).package_name
                                       \in packages}}

(***************************************************************************)
(* commands.get_plugins_directory, install_dependencies.validate_args      *)
(***************************************************************************)
\* What the configuration file that is looked up holds:
\*   "absent"       no such file (ConfigObj yields an empty configuration)
\*   "unparsable"   ConfigObj raises a parse error
\*   "no_entry"     no [plugins] directory entry
\*   "missing_dir"  the entry names a path that is no directory
\*   "dir"          the entry names a directory that exists
ConfigContents == {"absent", "unparsable", "no_entry", "missing_dir", "dir"}
\* os.environ: whether MICRODROP_PROFILE and MICRODROP_CONFIG are set
Environs == [MICRODROP_PROFILE : BOOLEAN, MICRODROP_CONFIG : BOOLEAN]

\* lines 85-93: the profile directory
user_root(microdrop_user_root, environ) ==
    IF microdrop_user_root THEN "microdrop_user_root argument"
    ELSE IF environ.MICRODROP_PROFILE THEN "MICRODROP_PROFILE"
    ELSE "home_dir()/MicroDrop"

\* lines 95-102: the configuration file
config_file(config_path, microdrop_user_root, environ) ==
    IF config_path THEN [file |-> "config_path argument"]
    ELSE IF environ.MICRODROP_CONFIG THEN [file |-> "MICRODROP_CONFIG"]
    ELSE [in |-> user_root(microdrop_user_root, environ), file |-> "microdrop.ini"]

\* lines 104-113, the body of the try block: the error it raises, if any
lookup_error(content) ==
    CASE content \in {"absent", "no_entry"} -> "KeyError"
      [] content = "unparsable" -> "ConfigObjError"
      [] content = "missing_dir" -> "IOError"
      [] OTHER -> "none"

\* (mutant) only a missing entry is handled
caught_key_error(err) == err = "KeyError"

\* line 114: except Exception
caught(err) == TRUE

\* config_path, microdrop_user_root: whether the argument is given
get_plugins_directory(config_path, microdrop_user_root, environ, content) ==
    LET err == lookup_error(content)
    IN  IF err = "none"
        THEN [err |-> "none", dir |-> "configured",
              of |-> config_file(config_path, microdrop_user_root, environ)]
        ELSE IF caught(err)
        THEN [err |-> "none", dir |-> "plugins",
              of |-> [in |-> user_root(microdrop_user_root, environ)]]
        ELSE [err |-> err, dir |-> "none", of |-> [in |-> "none"]]

\* plugins_directory, config_file_arg: whether the command line gives them
validate_args(plugins_directory, config_file_arg, environ, content) ==
    IF ~(plugins_directory \/ config_file_arg)
    THEN get_plugins_directory(FALSE, FALSE, environ, content)
    ELSE IF ~plugins_directory
    THEN get_plugins_directory(TRUE, FALSE, environ, content)
    ELSE [err |-> "none", dir |-> "explicit", of |-> [in |-> "args"]]

(***************************************************************************)
(* SpecDir: resolving the plugins directory                                *)
(***************************************************************************)
DirCall(call) ==
    /\ last' = call
    /\ prev' = NoCall
    /\ UNCHANGED <<actVars, cmdVars, revVars, dialog>>

GetPluginsDirectory ==
    \E config_path \in BOOLEAN, microdrop_user_root \in BOOLEAN,
       environ \in Environs, content \in ConfigContents :
        DirCall([ret |-> get_plugins_directory(config_path, microdrop_user_root,
                                               environ, content),
                 op |-> "get_plugins_directory",
                 microdrop_user_root |-> microdrop_user_root,
                 environ |-> environ, config_path |-> config_path,
                 content |-> content, plugins_directory |-> FALSE])

ValidateArgs ==
    \E plugins_directory \in BOOLEAN, config_file_arg \in BOOLEAN,
       environ \in Environs, content \in ConfigContents :
        DirCall([ret |-> validate_args(plugins_directory, config_file_arg,
                                       environ, content),
                 op |-> "validate_args", microdrop_user_root |-> FALSE,
                 environ |-> environ, config_path |-> config_file_arg,
                 content |-> content, plugins_directory |-> plugins_directory])

NextDir ==
    \/ GetPluginsDirectory
    \/ ValidateArgs

InitDir ==
    /\ platform = "Linux"
    /\ prefixKind = "pathlib"
    /\ InitFiles

SpecDir == InitDir /\ [][NextDir]_vars

HasDescriptor(pl) ==
    {n \in Names : pl[n].kind = "dir" /\ "properties.yml" \in pl[n].items}

\* C27: freeze returns one name==version entry for every installed package
\* of the plugins directory, name and version as its descriptor gives them,
\* and no other entry.
C27_FreezeLists ==
    last.op = "freeze"
    => last.ret = {<<plugins[n].props.package_name, plugins[n].props.version>> :
                      n \in HasDescriptor(plugins)}

\* C30: commands.uninstall of a directory that is under the plugins
\* directory removes it with everything in it, sub-directories that hold
\* files included: the call returns and no entry of that name is left.
C30_UninstallRecursive ==
    [][(last'.op = "uninstall" /\ plugins[last'.name].kind = "dir")
       => (/\ last'.returned
           /\ plugins'[last'.name] = NoEntry)]_vars

(***************************************************************************)
(* Broken link claims (checked under SpecAct)                              *)
(***************************************************************************)
\* C28: a link of the enabled root whose target directory is gone is still
\* a link that can be removed: disable of its name removes it instead of
\* raising IOError (NotFound), and a sweep finds it broken whatever the
\* platform, i.e. it removes it unless its unlink fails.
C28_BrokenLinkRemovable ==
    last.op \in {"disable", "sweep"} =>
        \A n \in BrokenLinks(last.pre) :
            /\ (last.op = "disable" /\ last.names = <<n>>)
                  => last.err = "none" /\ Unlinked(FS, n)
            /\ (last.op = "sweep" /\ n \notin last.failing)
                  => last.returned /\ n \in last.removed

\* C29: a sweep in which the removal of some broken link fails still
\* returns: it has removed every other broken link, it returns exactly the
\* links it removed, and every other entry of the enabled root, the links
\* whose target exists among them, is as before.
C29_SweepSurvivesFailure ==
    (last.op = "sweep" /\ last.failing # {})
    => /\ last.returned
       /\ last.removed = BrokenLinks(last.pre) \ last.failing
       /\ \A n \in Names :
             enabled[n] = IF n \in last.removed THEN NoEntry
                          ELSE last.pre.enabled[n]

(***************************************************************************)
(* Failed installs (checked under SpecCmd)                                 *)
(***************************************************************************)
\* C31: an install that raises once it has begun to change the plugins
\* directory (the download fails, install_fileobj raises, or the descriptor
\* installed does not match the resolved name and version) leaves no
\* directory for the package under the plugins directory.
C31_FailedInstallCleansUp ==
    (/\ last.op = "install" /\ ~last.returned
     /\ last.stage \in {"download", "install_fileobj", "verify"})
    => plugins[last.name].kind = "none"

(***************************************************************************)
(* Lists of names (checked under SpecAct)                                  *)
(***************************************************************************)
\* the part of C37 about disable_plugin
DisableInOrder(n, m) ==
    /\ (/\ last.pre.enabled_dir /\ last.pre.enabled[n].kind = "link"
        /\ path_exists(last.pre, EnabledLoc(n)) /\ Unlinked(last.pre, m))
       => /\ last.err = "IOError" /\ ~last.returned
          /\ Unlinked(FS, n)
    /\ Unlinked(last.pre, n)
       => /\ last.err = "IOError" /\ ~last.returned
          /\ enabled = last.pre.enabled

\* the part of C37 about enable_plugin (POSIX environment)
EnableInOrder(n, m) ==
    /\ (/\ Installed(last.pre, n) /\ Unlinked(last.pre, n)
        /\ ~Installed(last.pre, m))
       => /\ last.err = "IOError" /\ ~last.returned /\ last.ret = EmptyMap
          /\ enabled[n].kind = "link"
    /\ ~Installed(last.pre, n)
       => /\ last.err = "IOError" /\ ~last.returned /\ last.ret = EmptyMap
          /\ enabled = last.pre.enabled

\* C37: enable and disable take the names of a list in order and undo
\* nothing: when a name is not found the call raises IOError and returns no
\* map, the link of a name that precedes it has been created (removed), and
\* the entry of a name that follows it is as before.
C37_ListsNotAtomic ==
    \A n, m \in Names :
        (n # m /\ last.op \in {"enable", "disable"} /\ last.names = <<n, m>>)
        => /\ last.op = "disable" => DisableInOrder(n, m)
           /\ (last.op = "enable" /\ Posix) => EnableInOrder(n, m)

(***************************************************************************)
(* Version resolution (checked under SpecCmd)                              *)
(***************************************************************************)
\* C35: the version an install resolves from the plugin index is the
\* latest of the releases the index returned for the request, in whatever
\* order the index lists them.
C35_ResolvesLatest ==
    (last.op = "install" /\ last.resolved) => last.newest

(***************************************************************************)
(* Update of named packages (checked under SpecLst)                        *)
(***************************************************************************)
\* C34: an update call that is given package names runs install on exactly
\* these names, whatever the share root holds and whatever is installed.
C34_UpdateNamed ==
    (last.op = "update" /\ last.package_name.given)
    => last.called = last.package_name.names

(***************************************************************************)
(* Repeated rollback (checked under SpecRev)                               *)
(***************************************************************************)
\* C36: a rollback step leaves the actions directory as it is, and a
\* rollback that directly follows a rollback computes the same revision to
\* roll back to as the one before it.
C36_RollbackRepeats ==
    [][last'.op = "rollback"
       => (/\ actions' = actions
           /\ last.op = "rollback" => last'.target = last.target)]_vars

C36_Witness ==
    /\ last.op = "rollback" /\ prev.op = "rollback"
    /\ actions # {}
    /\ last.target # NoTarget
    /\ last.target = prev.target

(***************************************************************************)
(* api.rollback: the files of the actions directory                        *)
(***************************************************************************)
MaxDigits == 2    \* digits of the number in an action file name
MaxFiles == 2     \* files in the actions directory

\* The number of a file name as it is written: decimal digits, no leading
\* zero (rev0, rev1, rev9, rev10, rev19, rev90, ...)
Digits == {0, 1, 9}
Numerals ==
    {d \in UNION {[1..k -> Digits] : k \in 1..MaxDigits} : Len(d) > 1 => d[1] # 0}

\* A file of the actions directory.  matches: its stem starts with "rev" and
\* a digit (rev10.json, rev10.json.bz2).  suffix: ".bz2" or ".json".
\* compressed: its content is a bz2 stream; files are named after their
\* content.  revisions: the value of 'revisions' in its JSON content.
Histories == {<<Revision(0)>>, <<Revision(0), Revision(1)>>}
NamedFile(digits, suffix, history) ==
    [matches |-> TRUE, digits |-> digits, suffix |-> suffix,
     compressed |-> suffix = ".bz2", revisions |-> history]
\* a file that is no action file (e.g. a README)
Unrelated ==
    [matches |-> FALSE, digits |-> <<>>, suffix |-> ".json",
     compressed |-> FALSE, revisions |-> <<>>]
NoFile ==
    [matches |-> FALSE, digits |-> <<>>, suffix |-> "",
     compressed |-> FALSE, revisions |-> <<>>]
NamedFiles ==
    {NamedFile(d, x, h) : d \in Numerals, x \in {".bz2", ".json"}, h \in Histories}
        \cup {Unrelated}

\* int(s) of a string of decimal digits
RECURSIVE int_digits(_)
int_digits(d) ==
    IF d = <<>> THEN 0
    ELSE 10 * int_digits(SubSeq(d, 1, Len(d) - 1)) + d[Len(d)]

\* (mutant) the pattern rev(?P<rev>\d): one digit
cre_rev_one_digit(digits) == SubSeq(digits, 1, 1)

\* line 281: rev(?P<rev>\d+) takes every digit that follows "rev"
cre_rev(digits) == digits

\* lines 283-286: sorted on int(rev), greatest first, element [0]; files of
\* equal number keep the order of glob
action_file(files) ==
    LET matching == {f \in files : f.matches}
        key(f) == int_digits(cre_rev(f.digits))
    IN  {f \in matching : \A g \in matching : key(g) <= key(f)}

\* lines 288-295: bz2.open for the suffix .bz2, a plain open otherwise
read_action(f) ==
    IF f.suffix = ".bz2"
    THEN IF f.compressed THEN [err |-> "none", revisions |-> f.revisions]
         ELSE [err |-> "OSError", revisions |-> <<>>]
    ELSE IF f.compressed THEN [err |-> "UnicodeDecodeError", revisions |-> <<>>]
         ELSE [err |-> "none", revisions |-> f.revisions]

FileOutcome(r, f, read) ==
    [revisions |-> r.revisions, returned |-> r.returned, err |-> r.err,
     ret |-> r.ret, applied |-> r.applied, target |-> r.target,
     action_file |-> f, read |-> read]

\* rollback on a directory given by its file names
rollback_files(revs, files) ==
    IF files = {}
    THEN {FileOutcome(r, NoFile, <<>>) : r \in rollback(revs, {})}
    ELSE IF action_file(files) = {}
    \* line 286: [0] of an empty list
    THEN {[revisions |-> revs, returned |-> FALSE, err |-> "IndexError",
           ret |-> PyInt(-1), applied |-> NotApplied, target |-> NoTarget,
           action_file |-> NoFile, read |-> <<>>]}
    ELSE UNION {
      LET a == read_action(f)
          action == [conda_args |-> <<>>, revisions |-> a.revisions]
          file == ActionFile(int_digits(cre_rev(f.digits)), f.suffix, action)
      IN  IF a.err # "none"
          THEN {[revisions |-> revs, returned |-> FALSE, err |-> a.err,
                 ret |-> PyInt(-1), applied |-> NotApplied, target |-> NoTarget,
                 action_file |-> f, read |-> <<>>]}
          ELSE {FileOutcome(r, f, a.revisions) : r \in rollback(revs, {file})}
      : f \in action_file(files)}

(***************************************************************************)
(* SpecSel: rollback over the files found in the actions directory         *)
(***************************************************************************)
RollbackFiles ==
    \E r \in rollback_files(revisions, actions) :
        /\ revisions' = r.revisions
        /\ last' = [target |-> r.target, err |-> r.err, returned |-> r.returned,
                    ret |-> r.ret, op |-> "rollback", applied |-> r.applied,
                    action_file |-> r.action_file, read |-> r.read]
        /\ prev' = NoCall
        /\ UNCHANGED <<actions, packages, actVars, cmdVars, dialog>>

\* A file appears in the actions directory (written by an earlier run of the
\* manager, restored from a backup, or put there by hand).
EnvAddFile ==
    \E f \in NamedFiles \ actions :
        /\ Cardinality(actions) < MaxFiles
        /\ actions' = actions \cup {f}
        /\ last' = NoCall
        /\ prev' = NoCall
        /\ UNCHANGED <<revisions, packages, actVars, cmdVars, dialog>>

NextSel ==
    \/ RollbackFiles
    \/ EnvAddFile

InitSel ==
    /\ platform = "Linux"
    /\ prefixKind = "pathlib"
    /\ InitFiles

SpecSel == InitSel /\ [][NextSel]_vars

\* C32: rollback reads the action file whose number is the greatest as a
\* number (rev10 comes after rev9), be it a .json.bz2 or a .json file, and
\* gets the content of either.
C32_LatestByNumber ==
    (last.op = "rollback" /\ \E f \in actions : f.matches)
    => /\ last.action_file \in actions
       /\ last.action_file.matches
       /\ \A g \in actions :
             g.matches => int_digits(g.digits) <= int_digits(last.action_file.digits)
       /\ last.read = last.action_file.revisions

C32_Witness ==
    /\ last.op = "rollback"
    /\ \E f \in actions : f.digits = <<9>> /\ f.suffix = ".json"
    /\ last.action_file.digits = <<1, 0>>
    /\ last.action_file.suffix = ".bz2"
    /\ last.read = last.action_file.revisions

\* C33: a rollback whose action file lists fewer than two revisions raises
\* IndexError; no revision is handed to Conda and none is applied.
C33_ShortHistoryFails ==
    (/\ last.op = "rollback" /\ last.action_file.matches
     /\ Len(last.action_file.revisions) < 2)
    => /\ ~last.returned
       /\ last.err = "IndexError"
       /\ last.target = NoTarget
       /\ last.applied = NotApplied

C33_Witness ==
    /\ last.op = "rollback" /\ last.action_file.matches
    /\ Len(last.action_file.revisions) = 1
    /\ last.err = "IndexError"
    /\ Cardinality(actions) = MaxFiles

(***************************************************************************)
(* SpecDlg: ui.gtk.update_plugin_dialog.  The call builds the dialog and   *)
(* starts two daemon threads, _pulse and _update, which share the event    *)
(* update_complete and the dict thread_context with the calling thread.    *)
(* One call is followed at a time: the next call starts when the threads   *)
(* of the call before it have ended.                                       *)
(***************************************************************************)
\* what update() hands back: packages of the request were linked, only
\* dependencies were linked, or nothing was to be done
UpdateResponses == {"updated", "dependencies", "up_to_date"}

\* the message _status puts in the dialog for a response
status_text(update_response) ==
    IF update_response \in {"updated", "dependencies"} THEN update_response
    ELSE "up_to_date"

\* thread_context.get('update_response'): None when the key is not there
context_get(thread_context) ==
    IF thread_context = "unset" THEN "None" ELSE thread_context

\* lines 31-49: the list handed to update, or the exception of the lookup
package_name_list(package_name, outcome, ignore_not_installed) ==
    IF package_name = "None" THEN [err |-> "none", names |-> "installed"]
    ELSE IF outcome = "found" THEN [err |-> "none", names |-> "named"]
    ELSE IF ~ignore_not_installed
         THEN [err |-> "PackageNotFound", names |-> "none"]
    ELSE [err |-> "none", names |-> "available"]

DlgStep(d) ==
    /\ dialog' = d
    /\ UNCHANGED <<actVars, cmdVars, revVars, last, prev>>

\* lines 21-122: resolve the package names, build the dialog, create the
\* event and start the two threads.  package_name is left out or given;
\* ch.package_version (external) finds every package or raises
\* PackageNotFound.  The threads of the call before have ended.
DlgCall ==
    \E package_name \in {"None", "given"}, ignore_not_installed \in BOOLEAN,
       outcome \in {"found", "PackageNotFound"} :
        LET p == package_name_list(package_name, outcome, ignore_not_installed)
        IN  /\ dialog.main \in {"idle", "returned", "raised"}
            /\ dialog.worker \in {"none", "done"}
            /\ dialog.pulse \in {"none", "done"}
            /\ package_name = "None" => outcome = "found"
            /\ DlgStep([package_name |-> p.names,
                        ret |-> "unset",
                        main |-> IF p.err = "none" THEN "run" ELSE "raised",
                        worker |-> IF p.err = "none" THEN "update" ELSE "none",
                        pulse |-> IF p.err = "none" THEN "wait" ELSE "none",
                        update_complete |-> FALSE,
                        thread_context |-> "unset",
                        update_response |-> "unset",
                        idle |-> {},
                        text |-> IF p.err = "none" THEN "searching" ELSE "none",
                        progress_bar |-> IF p.err = "none" THEN "shown" ELSE "none"])

\* line 60: update(*args, **kwargs) returns a response or raises
WorkerUpdate ==
    /\ dialog.worker = "update"
    /\ \/ \E update_response \in UpdateResponses :
             DlgStep([dialog EXCEPT !.worker = "store",
                                    !.update_response = update_response])
       \/ DlgStep([dialog EXCEPT !.worker = "except"])

\* line 61: thread_context['update_response'] = update_response
WorkerStore ==
    /\ dialog.worker = "store"
    /\ DlgStep([dialog EXCEPT !.worker = "install_info",
                              !.thread_context = dialog.update_response])

\* lines 63-83: ch.install_info (external) returns and _status is queued,
\* or it raises
WorkerInstallInfo ==
    /\ dialog.worker = "install_info"
    /\ \/ DlgStep([dialog EXCEPT !.worker = "set",
                                 !.idle = @ \cup {status_text(dialog.update_response)}])
       \/ DlgStep([dialog EXCEPT !.worker = "except"])

\* (mutant) the handler ends the thread
WorkerExceptEnds ==
    /\ dialog.worker = "except"
    /\ DlgStep([dialog EXCEPT !.worker = "done",
                              !.idle = @ \cup {"error"},
                              !.thread_context = "None"])

\* lines 84-89: _error is queued and None is stored as the response
WorkerExcept ==
    /\ dialog.worker = "except"
    /\ DlgStep([dialog EXCEPT !.worker = "set",
                              !.idle = @ \cup {"error"},
                              !.thread_context = "None"])

\* line 90: update_complete.set()
WorkerSet ==
    /\ dialog.worker = "set"
    /\ DlgStep([dialog EXCEPT !.worker = "done", !.update_complete = TRUE])

\* lines 93-94: update_complete.wait(1./16) times out and a pulse is queued,
\* or it finds the event set and the loop ends
PulseWait ==
    /\ dialog.pulse = "wait"
    /\ IF dialog.update_complete
       THEN DlgStep([dialog EXCEPT !.pulse = "on_complete"])
       ELSE DlgStep([dialog EXCEPT !.idle = @ \cup {"pulse"}])

\* line 100: GLib.idle_add(_on_complete)
PulseOnComplete ==
    /\ dialog.pulse = "on_complete"
    /\ DlgStep([dialog EXCEPT !.pulse = "done",
                              !.idle = @ \cup {"_on_complete"}])

\* the GLib main loop runs one of the queued callbacks (queued pulses are
\* not told apart)
GtkIdle ==
    /\ dialog.main \in {"run", "destroyed", "returned"}
    /\ \E callback \in dialog.idle :
          DlgStep([dialog EXCEPT
                     !.idle = @ \ {callback},
                     !.text = IF callback \in {"pulse", "_on_complete"}
                              THEN @ ELSE callback,
                     !.progress_bar = IF callback = "_on_complete"
                                      THEN "hidden" ELSE @])

\* lines 124-125: dialog.run() returns when the user answers the dialog or
\* closes it; nothing else ends it
MainRun ==
    /\ dialog.main = "run"
    /\ DlgStep([dialog EXCEPT !.main = "destroyed"])

\* line 127: return thread_context.get('update_response')
MainReturn ==
    /\ dialog.main = "destroyed"
    /\ DlgStep([dialog EXCEPT !.main = "returned",
                              !.ret = context_get(dialog.thread_context)])

Worker ==
    \/ WorkerUpdate
    \/ WorkerStore
    \/ WorkerInstallInfo
    \/ WorkerExcept
    \/ WorkerSet

Pulse ==
    \/ PulseWait
    \/ PulseOnComplete

NextDlg ==
    \/ DlgCall
    \/ Worker
    \/ Pulse
    \/ GtkIdle
    \/ MainRun
    \/ MainReturn

InitDlg ==
    /\ platform = "Linux"
    /\ prefixKind = "pathlib"
    /\ InitFiles

SpecDlg == InitDlg /\ [][NextDlg]_vars

\* both threads are scheduled again and again, and the calls the worker
\* makes come back
SpecDlgFair == SpecDlg /\ WF_vars(Worker) /\ WF_vars(Pulse)

\* C38: the worker sets the completion event on every path (packages
\* updated, nothing to update, an exception raised), and the event is set
\* only once the response, or None after an exception, is stored; so the
\* polling thread, once started, always goes on to stop pulsing and to queue
\* its completion step.
C38_EventAlwaysSet ==
    /\ [](dialog.main # "idle" /\ dialog.update_complete
          => /\ dialog.worker = "done"
             /\ dialog.thread_context # "unset")
    /\ (dialog.main # "idle" /\ dialog.worker = "update")
          ~> (dialog.update_complete /\ dialog.pulse = "done")

\* the polling thread has ended after an update that raised
C38_Witness ==
    /\ dialog.main # "idle"
    /\ dialog.pulse = "done"
    /\ dialog.update_complete
    /\ dialog.update_response = "unset"
    /\ dialog.thread_context = "None"

\* C39: update_plugin_dialog does not return while the update it started is
\* running: when it has returned the worker has ended, and the value
\* returned is the response the worker stored.
C39_ReturnsResponse ==
    dialog.main = "returned"
    => /\ dialog.worker = "done"
       /\ dialog.ret = context_get(dialog.thread_context)

====
